---- MODULE Spec2Model ----
(***************************************************************************)
(* Model of optimizer/query_to_operator_transformer.cpp: the visitor that  *)
(* lowers a bound SQL statement to a tree of logical operators.            *)
(*                                                                         *)
(* The transformer object has two fields, output_expr_ and predicates_.    *)
(* One action models one call of ConvertToOpExpression on a statement of   *)
(* one kind; the visitor's recursion is a family of RECURSIVE operators    *)
(* threading a record t = [out, preds, rw, err, order, next, scopes]:      *)
(*   out    output_expr_                                                   *)
(*   preds  predicates_                                                    *)
(*   rw     the join kinds GenerateSubqueryTree has created, in order      *)
(*   err    the exception in flight, "none" when there is none             *)
(*   order  the order in which an unordered_set is iterated                *)
(*   next   the number of operator nodes the call has allocated            *)
(*   scopes for every Visit(SelectStatement) that has returned, in order   *)
(*          of return, predicates_ as it entered and as it left            *)
(* A visit returns [t |-> the transformer afterwards, n |-> the AST node   *)
(* afterwards], since the visitor edits expressions in place.              *)
(*                                                                         *)
(* Besides the two fields the state records the last call: op, the node    *)
(* passed; ast, that node after the call; ret, the pointer returned; err,  *)
(* the exception thrown; rewrites, the joins GenerateSubqueryTree created; *)
(* scopes, the SELECT visits that returned; entry_expr, the operator that  *)
(* output_expr_ pointed to when the call began ("NULL" for nullptr); and   *)
(* calls, the number of calls made on the transformer so far.  The         *)
(* first call on a transformer takes any of the explored statements, a     *)
(* later call one of a few that follow up.                                 *)
(***************************************************************************)
EXTENDS Integers, Sequences, FiniteSets, TLC

VARIABLES output_expr_, predicates_, op, ast, ret, err, rewrites, scopes, entry_expr, calls

vars == <<output_expr_, predicates_, op, ast, ret, err, rewrites, scopes, entry_expr, calls>>

(***************************************************************************)
(* Bounds of the explored inputs.                                          *)
(***************************************************************************)
MaxCalls == 2
MaxList == 3
MaxRows == 2
MaxInsertCols == 2

(***************************************************************************)
(* Null pointers, one per pointee type.                                    *)
(***************************************************************************)
NullExpr == [type |-> "NULL"]
NullStmt == [stmt |-> "NULL"]
NullRef == [ref |-> "NULL"]
NullJoin == [jtype |-> "NULL"]
NullOp == [op |-> "NULL"]
NoGroupBy == [present |-> FALSE]
NoLimit == [present |-> FALSE]
NoOrderBy == [present |-> FALSE]

(***************************************************************************)
(* Expression kinds, grouped by the expression class that carries them.    *)
(***************************************************************************)
SubqueryCompareTypes == {"COMPARE_EQUAL", "COMPARE_GREATER_THAN", "COMPARE_GREATER_THAN_OR_EQUAL_TO",
                         "COMPARE_LESS_THAN", "COMPARE_LESS_THAN_OR_EQUAL_TO"}
ComparisonTypes == SubqueryCompareTypes \cup {"COMPARE_IN", "COMPARE_NOT_EQUAL"}
OperatorTypes == {"OPERATOR_EXISTS", "OPERATOR_IS_NOT_NULL", "OPERATOR_NOT", "OPERATOR_PLUS"}

(***************************************************************************)
(* Expression constructors.  depth is what the binder derives: a column    *)
(* carries the depth of the scope it is bound in, a sub-query the depth of *)
(* its sub-select, a constant -1, and an inner node the smallest           *)
(* non-negative depth among its children.                                  *)
(***************************************************************************)
MinDepth(a, b) == IF a < 0 THEN b ELSE IF b < 0 THEN a ELSE IF a < b THEN a ELSE b

RECURSIVE DeriveDepth(_, _)
DeriveDepth(children, i) ==
  IF i > Len(children) THEN -1 ELSE MinDepth(children[i].depth, DeriveDepth(children, i + 1))

Expr(type, children) ==
  [type |-> type, children |-> children, depth |-> DeriveDepth(children, 1),
   table |-> "", column |-> "", alias |-> "", sub |-> NullStmt]
Col(table, column, depth) ==
  [type |-> "COLUMN_VALUE", children |-> <<>>, depth |-> depth,
   table |-> table, column |-> column, alias |-> "", sub |-> NullStmt]
Const == Expr("VALUE_CONSTANT", <<>>)
Star == Expr("STAR", <<>>)
Sub(select) == [Expr("ROW_SUBQUERY", <<>>) EXCEPT !.depth = select.depth, !.sub = select]
Agg(child) == Expr("AGGREGATE", <<child>>)
As(e, alias) == [e EXCEPT !.alias = alias]

(***************************************************************************)
(* AbstractExpression::HasSubquery: the flag the binder derives.           *)
(***************************************************************************)
RECURSIVE HasSubquery(_)
HasSubquery(e) ==
  \/ e.type = "ROW_SUBQUERY"
  \/ \E i \in 1..Len(e.children) : HasSubquery(e.children[i])

(***************************************************************************)
(* ExpressionUtil::GetAggregateExprs leaves its output non-empty exactly   *)
(* when the expression is, or contains, an aggregate.                      *)
(***************************************************************************)
RECURSIVE GetAggregateExprs(_)
GetAggregateExprs(e) ==
  (IF e.type = "AGGREGATE" THEN <<e>> ELSE <<>>) \o
  (LET RECURSIVE Kids(_)
       Kids(i) == IF i > Len(e.children) THEN <<>> ELSE GetAggregateExprs(e.children[i]) \o Kids(i + 1)
   IN Kids(1))

(***************************************************************************)
(* The catalog: tables, and for each the ordered columns of its schema.    *)
(* A column has an oid, a name, Nullable() and StoredExpression() (hasdef  *)
(* is TRUE when the stored default expression is not null).                *)
(***************************************************************************)
Column(oid, name, nullable, hasdef) == [oid |-> oid, name |-> name, nullable |-> nullable, hasdef |-> hasdef]

Schemas ==
  [ t |-> << Column(11, "c1", FALSE, FALSE), Column(12, "c2", TRUE, FALSE), Column(13, "c3", FALSE, TRUE) >>,
    u |-> << Column(21, "c1", TRUE, FALSE), Column(22, "c2", FALSE, FALSE) >>,
    v |-> << Column(31, "c1", FALSE, FALSE), Column(32, "c2", FALSE, FALSE), Column(33, "c3", TRUE, TRUE) >>,
    w |-> << Column(41, "c1", TRUE, FALSE) >> ]

GetSchema(table) == Schemas[table]
TableOids == [t |-> 1001, u |-> 1002, v |-> 1003, w |-> 1004]
GetTableOid(table) == TableOids[table]
GetDatabaseOid(db) == IF db = "" THEN 1 ELSE 2
GetDefaultNamespace == 15

\* Schema::GetColumn(name): the column of that name, or std::out_of_range.
HasColumn(schema, name) == \E i \in 1..Len(schema) : schema[i].name = name
GetColumn(schema, name) == schema[CHOOSE i \in 1..Len(schema) : schema[i].name = name]

(***************************************************************************)
(* Operator tree nodes: OperatorExpression(op, children).                  *)
(***************************************************************************)
OperatorExpression(kind, args, children) == [op |-> kind, args |-> args, children |-> children]
PushChild(node, child) == [node EXCEPT !.children = Append(@, child)]

\* new OperatorExpression(...) in the call of transformer t: the node, told
\* from every other node of the call by the position of its allocation.
New(t, kind, args, children) == [id |-> t.next] @@ OperatorExpression(kind, args, children)

\* output_expr_ = new OperatorExpression(...)
Output(t, kind, args, children) == [t EXCEPT !.out = New(t, kind, args, children), !.next = @ + 1]

LogicalGet(db, ns, table, predicates, alias, for_update) ==
  [db |-> db, ns |-> ns, table |-> table, predicates |-> predicates, alias |-> alias, for_update |-> for_update]
\* LogicalGet::Make() without arguments: the scan of a SELECT without FROM.
LogicalGetDefault == LogicalGet(0, 0, 0, <<>>, "", FALSE)

AnnotatedExpression(e, aliases) == [expr |-> e, aliases |-> aliases]

(***************************************************************************)
(* SplitPredicates: the conjuncts of an expression, left to right.         *)
(***************************************************************************)
RECURSIVE SplitPredicates(_)
SplitPredicates(e) ==
  IF e = NullExpr THEN <<>>
  ELSE IF e.type = "CONJUNCTION_AND"
       THEN LET RECURSIVE Kids(_)
                Kids(i) == IF i > Len(e.children) THEN <<>>
                           ELSE SplitPredicates(e.children[i]) \o Kids(i + 1)
            IN Kids(1)
       ELSE <<e>>

(***************************************************************************)
(* GenerateTableAliasSet: the table names of the COLUMN_VALUE nodes        *)
(* reachable through children.                                            *)
(***************************************************************************)
RECURSIVE GenerateTableAliasSet(_)
GenerateTableAliasSet(e) ==
  IF e.type = "COLUMN_VALUE" THEN {e.table}
  ELSE UNION {GenerateTableAliasSet(e.children[i]) : i \in 1..Len(e.children)}

(***************************************************************************)
(* ExtractPredicates: appends one annotated predicate per conjunct.        *)
(***************************************************************************)
ExtractPredicates(e, annotated_predicates) ==
  LET predicates == SplitPredicates(e)
  IN annotated_predicates \o
     [i \in 1..Len(predicates) |-> AnnotatedExpression(predicates[i], GenerateTableAliasSet(predicates[i]))]

(***************************************************************************)
(* IsSupportedConjunctivePredicate                                         *)
(***************************************************************************)
\* The check with a comparison admitted as soon as one child is a sub-query,
\* whatever the other child: C7 amended fails under it.
IsSupportedEitherSubquery(e) ==
  IF ~HasSubquery(e) THEN TRUE
  ELSE IF /\ e.type = "COMPARE_IN"
          /\ e.children[1].type # "ROW_SUBQUERY"
          /\ e.children[2].type = "ROW_SUBQUERY" THEN TRUE
  ELSE IF /\ e.type = "OPERATOR_EXISTS"
          /\ e.children[1].type = "ROW_SUBQUERY" THEN TRUE
  ELSE IF /\ e.type \in SubqueryCompareTypes
          /\ \/ e.children[2].type = "ROW_SUBQUERY"
             \/ e.children[1].type = "ROW_SUBQUERY" THEN TRUE
  ELSE FALSE

IsSupportedConjunctivePredicate(e) ==
  IF ~HasSubquery(e) THEN TRUE
  ELSE IF /\ e.type = "COMPARE_IN"
          /\ e.children[1].type # "ROW_SUBQUERY"
          /\ e.children[2].type = "ROW_SUBQUERY" THEN TRUE
  ELSE IF /\ e.type = "OPERATOR_EXISTS"
          /\ e.children[1].type = "ROW_SUBQUERY" THEN TRUE
  ELSE IF /\ e.type \in SubqueryCompareTypes
          /\ \/ ~HasSubquery(e.children[1]) /\ e.children[2].type = "ROW_SUBQUERY"
             \/ ~HasSubquery(e.children[2]) /\ e.children[1].type = "ROW_SUBQUERY" THEN TRUE
  ELSE FALSE

(***************************************************************************)
(* RequireAggregation: [val, err]; err is the exception thrown, if any.    *)
(***************************************************************************)
\* RequireAggregation with the select list examined before GROUP BY is
\* looked at: C10 fails under it.
RequireAggregationListFirst(s) ==
  LET has_aggregation == \E i \in 1..Len(s.columns) : GetAggregateExprs(s.columns[i]) # <<>>
      has_other_exprs == \E i \in 1..Len(s.columns) : GetAggregateExprs(s.columns[i]) = <<>>
  IN IF has_aggregation /\ has_other_exprs
     THEN [val |-> FALSE, err |-> "Optimizer.AggregationMix"]
     ELSE [val |-> s.groupby # NoGroupBy \/ has_aggregation, err |-> "none"]

RequireAggregation(s) ==
  IF s.groupby # NoGroupBy THEN [val |-> TRUE, err |-> "none"]
  ELSE LET has_aggregation == \E i \in 1..Len(s.columns) : GetAggregateExprs(s.columns[i]) # <<>>
           has_other_exprs == \E i \in 1..Len(s.columns) : GetAggregateExprs(s.columns[i]) = <<>>
       IN IF has_aggregation /\ has_other_exprs
          THEN [val |-> FALSE, err |-> "Optimizer.AggregationMix"]
          ELSE [val |-> has_aggregation, err |-> "none"]

(***************************************************************************)
(* IsSupportedSubSelect: [val, err]                                        *)
(***************************************************************************)
\* IsSupportedSubSelect asking of a correlated conjunct only that it is an
\* equality: C14 fails under it.
IsSupportedEquality(s) ==
  LET req == RequireAggregation(s)
      predicates == SplitPredicates(s.where)
  IN IF req.err # "none" THEN req
     ELSE IF ~req.val THEN [val |-> TRUE, err |-> "none"]
     ELSE [val |-> \A i \in 1..Len(predicates) :
                     predicates[i].depth < s.depth => predicates[i].type = "COMPARE_EQUAL",
           err |-> "none"]

IsSupportedSubSelect(s) ==
  LET req == RequireAggregation(s)
      predicates == SplitPredicates(s.where)
      Bad(pred) ==
        /\ pred.depth < s.depth
        /\ \/ pred.type # "COMPARE_EQUAL"
           \/ ~ \/ pred.children[2].depth = s.depth /\ pred.children[1].type = "COLUMN_VALUE"
                \/ pred.children[1].depth = s.depth /\ pred.children[2].type = "COLUMN_VALUE"
  IN IF req.err # "none" THEN req
     ELSE IF ~req.val THEN [val |-> TRUE, err |-> "none"]
     ELSE [val |-> ~ \E i \in 1..Len(predicates) : Bad(predicates[i]), err |-> "none"]

(***************************************************************************)
(* The visitor.  Throw raises an exception: every later step is skipped.   *)
(***************************************************************************)
Throw(t, e) == [t EXCEPT !.err = e]

\* ::tolower over the aliases the explored statements use.
ToLower(name) == CASE name = "D" -> "d" [] name = "E" -> "e" [] name = "X" -> "x" [] OTHER -> name

(***************************************************************************)
(* ConstructSelectElementMap: lower-cased alias, or column name, of each   *)
(* select element to the element; a later element overwrites an earlier.   *)
(***************************************************************************)
SelectElementName(e) == IF e.alias # "" THEN e.alias ELSE e.column
SelectElementNamed(e) == e.alias # "" \/ e.type = "COLUMN_VALUE"

ConstructSelectElementMap(select_list) ==
  LET named == {i \in 1..Len(select_list) : SelectElementNamed(select_list[i])}
      names == {ToLower(SelectElementName(select_list[i])) : i \in named}
      Last(a) == CHOOSE i \in named :
                   /\ ToLower(SelectElementName(select_list[i])) = a
                   /\ \A j \in named : ToLower(SelectElementName(select_list[j])) = a => j <= i
  IN [a \in names |-> select_list[Last(a)]]

(***************************************************************************)
(* node->Accept(this): double dispatch to the Visit of the node's class,   *)
(* defined after the Visit operators.  A Visit that goes on with the       *)
(* result of a nested visit is split at that point: the operator named     *)
(* after it makes the nested visit and hands [t, n] to the rest.           *)
(***************************************************************************)
RECURSIVE Accept(_, _)

\* AcceptChildren: accepts the visitor on children i, i+1, ... in order.
RECURSIVE AcceptChildren(_, _, _)
AcceptedChild(e, i, r) == AcceptChildren(r.t, [e EXCEPT !.children[i] = r.n], i + 1)

AcceptChildren(t, e, i) ==
  IF t.err # "none" \/ i > Len(e.children) THEN [t |-> t, n |-> e]
  ELSE AcceptedChild(e, i, Accept(t, e.children[i]))

(***************************************************************************)
(* GenerateSubqueryTree(expr, child_id, single_join): child_id counts from *)
(* 0 as in the source.  Returns [t, n, ok]; ok is the bool returned.       *)
(***************************************************************************)
\* After sub_select->Accept: r is what it returned, op_expr the join node
\* allocated before it, over the outer relation.
\* The same with the join's own first child pushed in place of the tree of
\* the sub-select: the outer relation hangs twice under the join, and C12
\* amended fails.
PushOuterAgain(e, child_id, op_expr, r) ==
  IF r.t.err # "none"
  THEN [t |-> r.t, n |-> [e EXCEPT !.children[child_id + 1].sub = r.n], ok |-> FALSE]
  ELSE [t |-> [r.t EXCEPT !.out = PushChild(op_expr, op_expr.children[1]), !.rw = Append(@, op_expr.op)],
        n |-> [e EXCEPT !.children[child_id + 1] = r.n.columns[1]],
        ok |-> TRUE]

PushSubquery(e, child_id, op_expr, r) ==
  IF r.t.err # "none"
  THEN [t |-> r.t, n |-> [e EXCEPT !.children[child_id + 1].sub = r.n], ok |-> FALSE]
  ELSE [t |-> [r.t EXCEPT !.out = PushChild(op_expr, r.t.out), !.rw = Append(@, op_expr.op)],
        n |-> [e EXCEPT !.children[child_id + 1] = r.n.columns[1]],
        ok |-> TRUE]

SubSelectJoin(t, single_join) ==
  New(t, IF single_join THEN "SingleJoin" ELSE "MarkJoin", [none |-> TRUE], <<t.out>>)

CheckedSubquery(t, e, child_id, single_join, sub_select, supported) ==
  IF supported.err # "none" THEN [t |-> Throw(t, supported.err), n |-> e, ok |-> FALSE]
  ELSE IF ~supported.val THEN [t |-> Throw(t, "NotImplemented.SubSelect"), n |-> e, ok |-> FALSE]
  ELSE IF Len(sub_select.columns) # 1
       THEN [t |-> Throw(t, "NotImplemented.SubSelectArity"), n |-> e, ok |-> FALSE]
  ELSE PushSubquery(e, child_id, SubSelectJoin(t, single_join),
                    Accept([t EXCEPT !.next = @ + 1], sub_select))

GenerateSubqueryTree(t, e, child_id, single_join) ==
  IF e.children[child_id + 1].type # "ROW_SUBQUERY" THEN [t |-> t, n |-> e, ok |-> FALSE]
  ELSE CheckedSubquery(t, e, child_id, single_join, e.children[child_id + 1].sub,
                       IsSupportedSubSelect(e.children[child_id + 1].sub))

(***************************************************************************)
(* Visit(ComparisonExpression), Visit(OperatorExpression)                  *)
(***************************************************************************)
\* g is what GenerateSubqueryTree returned: on true the node takes type.
Rewritten(g, type) == AcceptChildren(g.t, IF g.ok THEN [g.n EXCEPT !.type = type] ELSE g.n, 1)

\* a || b: the right child is tried when the left was no sub-query.
OrRightChild(g0) == IF g0.ok \/ g0.t.err # "none" THEN g0 ELSE GenerateSubqueryTree(g0.t, g0.n, 1, TRUE)

Transformed(g) == AcceptChildren(g.t, g.n, 1)

VisitComparison(t, e) ==
  IF e.type = "COMPARE_IN" THEN Rewritten(GenerateSubqueryTree(t, e, 1, FALSE), "COMPARE_EQUAL")
  ELSE IF e.type \in SubqueryCompareTypes
  THEN IF e.children[1].type = "ROW_SUBQUERY" /\ e.children[2].type = "ROW_SUBQUERY"
       THEN [t |-> Throw(t, "NotImplemented.ScalarSubqueryCompare"), n |-> e]
       ELSE Transformed(OrRightChild(GenerateSubqueryTree(t, e, 0, TRUE)))
  ELSE AcceptChildren(t, e, 1)

\* Visit(OperatorExpression) leaving EXISTS as it is once its sub-query is
\* rewritten: C8 amended fails under it.
VisitOperatorKeepingExists(t, e) ==
  IF e.type = "OPERATOR_EXISTS" THEN Transformed(GenerateSubqueryTree(t, e, 0, FALSE))
  ELSE AcceptChildren(t, e, 1)

VisitOperator(t, e) ==
  IF e.type = "OPERATOR_EXISTS" THEN Rewritten(GenerateSubqueryTree(t, e, 0, FALSE), "OPERATOR_IS_NOT_NULL")
  ELSE AcceptChildren(t, e, 1)

(***************************************************************************)
(* CollectPredicates(expr, parse_result, predicates): to_member is TRUE    *)
(* when the vector passed is &predicates_, else the vector is the local    *)
(* one whose contents are passed and returned in vec.                      *)
(***************************************************************************)
\* After expr->Accept: r is what it returned.
ExtractInto(r, to_member, local) ==
  IF r.t.err # "none" THEN [t |-> r.t, n |-> r.n, vec |-> local]
  ELSE IF to_member
       THEN [t |-> [r.t EXCEPT !.preds = ExtractPredicates(r.n, @)], n |-> r.n, vec |-> local]
       ELSE [t |-> r.t, n |-> r.n, vec |-> ExtractPredicates(r.n, local)]

AllSupported(predicate_ptrs) ==
  \A i \in 1..Len(predicate_ptrs) : IsSupportedConjunctivePredicate(predicate_ptrs[i])

\* CollectPredicates visiting the expression before it looks whether the
\* conjuncts as passed are supported: C16 fails under it.
ThrowIfUnsupported(e, c) ==
  IF c.t.err = "none" /\ ~AllSupported(SplitPredicates(e))
  THEN [t |-> Throw(c.t, "NotImplemented.Predicate"), n |-> c.n, vec |-> c.vec]
  ELSE c

CollectVisitingFirst(t, e, to_member, local) ==
  ThrowIfUnsupported(e, ExtractInto(Accept(t, e), to_member, local))

CollectPredicates(t, e, to_member, local) ==
  IF ~AllSupported(SplitPredicates(e))
  THEN [t |-> Throw(t, "NotImplemented.Predicate"), n |-> e, vec |-> local]
  ELSE ExtractInto(Accept(t, e), to_member, local)

(***************************************************************************)
(* Visit(SelectStatement), in the order of the source: FROM, WHERE,        *)
(* aggregation and HAVING, DISTINCT, LIMIT.  Each step takes and returns   *)
(* [t, n] with n the statement.                                            *)
(***************************************************************************)
\* r is what Accept on the FROM table returned.
FromVisited(s, r) == [t |-> r.t, n |-> [s EXCEPT !.from = r.n]]

SelectFrom(t, s) ==
  IF s.from # NullRef THEN FromVisited(s, Accept(t, s.from))
  ELSE [t |-> Output(t, "Get", LogicalGetDefault, <<>>), n |-> s]

\* c is what CollectPredicates returned for the WHERE clause, if there is one.
WhereFilter(s, c) ==
  IF c.t.err = "none" /\ c.t.preds # <<>>
  THEN [t |-> [Output(c.t, "Filter", [predicates |-> c.t.preds], <<c.t.out>>) EXCEPT !.preds = <<>>],
        n |-> [s EXCEPT !.where = c.n]]
  ELSE [t |-> c.t, n |-> [s EXCEPT !.where = c.n]]

SelectWhere(r) ==
  IF r.t.err # "none" THEN r
  ELSE WhereFilter(r.n, IF r.n.where # NullExpr
                        THEN CollectPredicates(r.t, r.n.where, TRUE, <<>>)
                        ELSE [t |-> r.t, n |-> r.n.where, vec |-> <<>>])

\* c is what CollectPredicates returned for the HAVING clause, if there is one.
HavingFilter(s, c) ==
  IF c.t.err = "none" /\ c.vec # <<>>
  THEN [t |-> Output(c.t, "Filter", [predicates |-> c.vec], <<c.t.out>>),
        n |-> [s EXCEPT !.groupby.having = c.n]]
  ELSE [t |-> c.t, n |-> [s EXCEPT !.groupby.having = c.n]]

\* ta: the transformer once the aggregation over the GROUP BY columns is the output.
GroupByHaving(ta, s) ==
  HavingFilter(s, IF s.groupby.having # NullExpr
                  THEN CollectPredicates(ta, s.groupby.having, FALSE, <<>>)
                  ELSE [t |-> ta, n |-> s.groupby.having, vec |-> <<>>])

Aggregate(t, group_by_cols) ==
  Output(t, "AggregateAndGroupBy", [group_by_cols |-> group_by_cols], <<t.out>>)

Aggregation(r, req) ==
  IF req.err # "none" THEN [t |-> Throw(r.t, req.err), n |-> r.n]
  ELSE IF ~req.val THEN r
  ELSE IF r.n.groupby = NoGroupBy THEN [t |-> Aggregate(r.t, <<>>), n |-> r.n]
  ELSE GroupByHaving(Aggregate(r.t, r.n.groupby.columns), r.n)

SelectAggregation(r) ==
  IF r.t.err # "none" THEN r ELSE Aggregation(r, RequireAggregation(r.n))

SelectDistinct(r) ==
  IF r.t.err # "none" THEN r
  ELSE IF r.n.distinct
       THEN [t |-> Output(r.t, "Distinct", [none |-> TRUE], <<r.t.out>>), n |-> r.n]
       ELSE r

OrderingType(type) == IF type = "kOrderAsc" THEN "ASC" ELSE "DESC"

LogicalLimit(s) ==
  [offset |-> s.limit.offset, limit |-> s.limit.limit,
   sort_exprs |-> IF s.orderby # NoOrderBy THEN s.orderby.exprs ELSE <<>>,
   sort_direction |-> IF s.orderby # NoOrderBy
                      THEN [i \in 1..Len(s.orderby.types) |-> OrderingType(s.orderby.types[i])]
                      ELSE <<>>]

SelectLimit(r) ==
  IF r.t.err # "none" THEN r
  ELSE IF r.n.limit # NoLimit /\ r.n.limit.limit # -1
       THEN [t |-> Output(r.t, "Limit", LogicalLimit(r.n), <<r.t.out>>), n |-> r.n]
       ELSE r

\* The return of Visit(SelectStatement) without predicates_ =
\* std::move(pre_predicates): C13 fails under it.
LeavePredicates(pre_predicates, r) ==
  IF r.t.err # "none" THEN r
  ELSE [t |-> [r.t EXCEPT !.scopes = Append(@, [depth |-> r.n.depth, entry |-> pre_predicates,
                                                body |-> r.t.preds, exit |-> r.t.preds])],
        n |-> r.n]

\* predicates_ = std::move(pre_predicates), which an exception skips.  The
\* visit that returns is recorded in scopes: the depth of its SELECT, and
\* predicates_ as pre_predicates took it, as the body left it and as it is
\* when the visit returns.
RestorePredicates(pre_predicates, r) ==
  IF r.t.err # "none" THEN r
  ELSE [t |-> [r.t EXCEPT !.preds = pre_predicates,
                          !.scopes = Append(@, [depth |-> r.n.depth, entry |-> pre_predicates,
                                                body |-> r.t.preds, exit |-> pre_predicates])],
        n |-> r.n]

\* Visit(SelectStatement) with LIMIT handled before DISTINCT: the clause
\* order of C1 fails under it.
VisitSelectLimitFirst(t, s) ==
  RestorePredicates(t.preds,
                    SelectDistinct(SelectLimit(SelectAggregation(SelectWhere(
                      SelectFrom([t EXCEPT !.preds = <<>>], s))))))

\* Visit(SelectStatement) with pre_predicates a copy of predicates_, which
\* keeps what it held: C17 fails under it.
VisitSelectOnAccumulator(t, s) ==
  RestorePredicates(t.preds, SelectLimit(SelectDistinct(SelectAggregation(SelectWhere(SelectFrom(t, s))))))

VisitSelect(t, s) ==
  RestorePredicates(t.preds,
                    SelectLimit(SelectDistinct(SelectAggregation(SelectWhere(
                      SelectFrom([t EXCEPT !.preds = <<>>], s))))))

(***************************************************************************)
(* Visit(JoinDefinition)                                                   *)
(***************************************************************************)
JoinOperator(jtype) ==
  CASE jtype = "INNER" -> "InnerJoin"
    [] jtype = "OUTER" -> "OuterJoin"
    [] jtype = "LEFT" -> "LeftJoin"
    [] jtype = "RIGHT" -> "RightJoin"
    [] jtype = "SEMI" -> "SemiJoin"
    [] OTHER -> "none"

\* c is what CollectPredicates returned for the condition of an INNER join.
InnerJoin(node, left_expr, right_expr, c) ==
  IF c.t.err # "none" THEN [t |-> c.t, n |-> [node EXCEPT !.cond = c.n]]
  ELSE [t |-> Output(c.t, "InnerJoin", [none |-> TRUE], <<left_expr, right_expr>>),
        n |-> [node EXCEPT !.cond = c.n]]

\* The switch with INNER handled as the other join types are, the condition
\* put on the node and nothing collected: C15 fails under it.
ConstructJoinWithCondition(t, node, left_expr, right_expr) ==
  IF JoinOperator(node.jtype) = "none" THEN [t |-> Throw(t, "Optimizer.InvalidJoinType"), n |-> node]
  ELSE [t |-> Output(t, JoinOperator(node.jtype), [join_predicate |-> node.cond], <<left_expr, right_expr>>),
        n |-> node]

ConstructJoin(t, node, left_expr, right_expr) ==
  IF node.jtype = "INNER"
  THEN InnerJoin(node, left_expr, right_expr, CollectPredicates(t, node.cond, TRUE, <<>>))
  ELSE IF JoinOperator(node.jtype) = "none" THEN [t |-> Throw(t, "Optimizer.InvalidJoinType"), n |-> node]
  ELSE [t |-> Output(t, JoinOperator(node.jtype), [join_predicate |-> node.cond], <<left_expr, right_expr>>),
        n |-> node]

\* rr is what Accept on the right table returned.
RightVisited(node, left_expr, rr) ==
  IF rr.t.err # "none" THEN [t |-> rr.t, n |-> [node EXCEPT !.right = rr.n]]
  ELSE ConstructJoin(rr.t, [node EXCEPT !.right = rr.n], left_expr, rr.t.out)

\* l is what Accept on the left table returned.
LeftVisited(node, l) ==
  IF l.t.err # "none" THEN [t |-> l.t, n |-> [node EXCEPT !.left = l.n]]
  ELSE RightVisited([node EXCEPT !.left = l.n], l.t.out, Accept(l.t, node.right))

VisitJoin(t, node) == LeftVisited(node, Accept(t, node.left))

(***************************************************************************)
(* Visit(TableRef)                                                         *)
(***************************************************************************)
\* The range-for of the implicit join: elements i, i+1, ... of the list.
RECURSIVE ImplicitJoinLoop(_, _, _, _)
JoinElement(list, i, prev_expr, r) ==
  ImplicitJoinLoop([r.t EXCEPT !.next = @ + 1], [list EXCEPT ![i] = r.n], i + 1,
                   New(r.t, "InnerJoin", [none |-> TRUE], <<prev_expr, r.t.out>>))

ImplicitJoinLoop(t, list, i, prev_expr) ==
  IF t.err # "none" \/ i > Len(list) THEN [t |-> t, list |-> list, prev_expr |-> prev_expr]
  ELSE JoinElement(list, i, prev_expr, Accept(t, list[i]))

LeftDeep(node, loop) ==
  [t |-> IF loop.t.err # "none" THEN loop.t ELSE [loop.t EXCEPT !.out = loop.prev_expr],
   n |-> [node EXCEPT !.list = loop.list]]

\* first is what Accept on element 0 of the list returned.
ImplicitJoin(node, first) ==
  LeftDeep(node, ImplicitJoinLoop(first.t, [node.list EXCEPT ![1] = first.n], 1, first.t.out))

SingleTable(t, node) ==
  Output(t, "Get",
         LogicalGet(GetDatabaseOid(node.db), GetDefaultNamespace, GetTableOid(node.table), <<>>, node.alias, FALSE),
         <<>>)

\* r is what Accept on the select of a derived table returned.
QueryDerived(node, table_alias, alias_to_expr_map, r) ==
  [t |-> IF r.t.err # "none" THEN r.t
         ELSE Output(r.t, "QueryDerivedGet",
                     [alias |-> table_alias, alias_to_expr_map |-> alias_to_expr_map], <<r.t.out>>),
   n |-> [node EXCEPT !.select = r.n]]

ExplicitJoin(node, r) == [t |-> r.t, n |-> [node EXCEPT !.join = r.n]]

VisitTableRef(t, node) ==
  IF node.select # NullStmt
  THEN QueryDerived(node, ToLower(node.alias), ConstructSelectElementMap(node.select.columns),
                    Accept(t, node.select))
  ELSE IF node.join # NullJoin THEN ExplicitJoin(node, Accept(t, node.join))
  ELSE IF Len(node.list) > 1 THEN ImplicitJoin(node, Accept(t, node.list[1]))
  ELSE [t |-> SingleTable(t, IF Len(node.list) = 1 THEN node.list[1] ELSE node), n |-> node]

(***************************************************************************)
(* Visit(InsertStatement).  The checks of the VALUES rows return the       *)
(* exception they throw, "none" when they throw none.                      *)
(***************************************************************************)
\* The check of the rows with every width compared before any missing
\* column is looked at: C5 amended fails under it.
RECURSIVE CheckRowsWidthsFirst(_, _, _)
CheckRowsWidthsFirst(column_objects, values, i) ==
  IF \E k \in 1..Len(values) : Len(values[k]) > Len(column_objects) THEN "Catalog.TooManyValues"
  ELSE IF i > Len(values) THEN "none"
  ELSE IF \E j \in (Len(values[i]) + 1)..Len(column_objects) :
            ~column_objects[j].nullable /\ ~column_objects[j].hasdef
       THEN "Catalog.NotNullViolation"
  ELSE CheckRowsWidthsFirst(column_objects, values, i + 1)

\* First row, from row i on, that is too wide or leaves a column without a
\* value that is neither nullable nor has a default.
RECURSIVE CheckRowsWithoutColumns(_, _, _)
CheckRowsWithoutColumns(column_objects, values, i) ==
  IF i > Len(values) THEN "none"
  ELSE IF Len(values[i]) > Len(column_objects) THEN "Catalog.TooManyValues"
  ELSE IF \E j \in (Len(values[i]) + 1)..Len(column_objects) :
            ~column_objects[j].nullable /\ ~column_objects[j].hasdef
       THEN "Catalog.NotNullViolation"
  ELSE CheckRowsWithoutColumns(column_objects, values, i + 1)

RECURSIVE CheckTupleSizes(_, _, _)
CheckTupleSizes(num_columns, values, i) ==
  IF i > Len(values) THEN "none"
  ELSE IF Len(values[i]) > num_columns THEN "Catalog.TooManyValues"
  ELSE IF Len(values[i]) < num_columns THEN "Catalog.TooFewValues"
  ELSE CheckTupleSizes(num_columns, values, i + 1)

\* The check of the column list with the names resolved before the sizes of
\* the tuples are compared: the order of C6 fails under it.
CheckInsertColumnsNamesFirst(schema, columns, values) ==
  IF \E i \in 1..Len(columns) : ~HasColumn(schema, columns[i]) THEN "Catalog.UnknownColumn"
  ELSE IF CheckTupleSizes(Len(columns), values, 1) # "none" THEN CheckTupleSizes(Len(columns), values, 1)
  ELSE IF \E j \in 1..Len(schema) :
            /\ schema[j].oid \notin {GetColumn(schema, columns[i]).oid : i \in 1..Len(columns)}
            /\ ~schema[j].nullable
            /\ ~schema[j].hasdef
       THEN "Catalog.NotNullViolation"
  ELSE "none"

Specified(schema, columns) == {GetColumn(schema, columns[i]).oid : i \in 1..Len(columns)}

CheckInsertColumns(schema, columns, values) ==
  IF CheckTupleSizes(Len(columns), values, 1) # "none" THEN CheckTupleSizes(Len(columns), values, 1)
  ELSE IF \E i \in 1..Len(columns) : ~HasColumn(schema, columns[i]) THEN "Catalog.UnknownColumn"
  ELSE IF \E j \in 1..Len(schema) :
            schema[j].oid \notin Specified(schema, columns) /\ ~schema[j].nullable /\ ~schema[j].hasdef
       THEN "Catalog.NotNullViolation"
  ELSE "none"

\* The orders in which iterating an unordered_set may deliver its elements.
Orderings(S) == {f \in [1..Cardinality(S) -> S] : \A i, j \in DOMAIN f : i # j => f[i] # f[j]}

LogicalInsert(db, ns, table, col_ids, values) ==
  [db |-> db, ns |-> ns, table |-> table, col_ids |-> col_ids, values |-> values]

InsertValuesChecked(t, s, check, col_ids) ==
  IF check # "none" THEN [t |-> Throw(t, check), n |-> s]
  ELSE [t |-> Output(t, "Insert",
                     LogicalInsert(GetDatabaseOid(s.table.db), GetDefaultNamespace,
                                   GetTableOid(s.table.table), col_ids, s.values),
                     <<>>),
        n |-> s]

\* r is what Accept on the SELECT of an INSERT ... SELECT returned.
InsertSelect(s, r) ==
  [t |-> IF r.t.err # "none" THEN r.t
         ELSE Output(r.t, "InsertSelect",
                     [db |-> GetDatabaseOid(s.table.db), ns |-> GetDefaultNamespace,
                      table |-> GetTableOid(s.table.table)],
                     <<r.t.out>>),
   n |-> [s EXCEPT !.select = r.n]]

\* t.order: the order in which iterating the set of specified oids delivers them.
VisitInsert(t, s) ==
  IF s.itype = "SELECT" THEN InsertSelect(s, Accept(t, s.select))
  ELSE IF s.columns = <<>>
  THEN InsertValuesChecked(t, s, CheckRowsWithoutColumns(GetSchema(s.table.table), s.values, 1),
                           [i \in 1..Len(GetSchema(s.table.table)) |-> GetSchema(s.table.table)[i].oid])
  ELSE InsertValuesChecked(t, s, CheckInsertColumns(GetSchema(s.table.table), s.columns, s.values), t.order)

\* The iteration orders VisitInsert can meet for statement s.
InsertOrders(s) ==
  IF /\ s.itype = "VALUES"
     /\ s.columns # <<>>
     /\ CheckInsertColumns(GetSchema(s.table.table), s.columns, s.values) = "none"
  THEN Orderings(Specified(GetSchema(s.table.table), s.columns))
  ELSE {<<>>}

(***************************************************************************)
(* Visit(DeleteStatement), Visit(UpdateStatement)                          *)
(***************************************************************************)
\* table_scan, allocated after the delete_expr / update_expr of transformer t.
TableScan(t, target_table, condition) ==
  New([t EXCEPT !.next = @ + 1], "Get",
      LogicalGet(GetDatabaseOid(target_table.db), GetDefaultNamespace, GetTableOid(target_table.table),
                 IF condition # NullExpr THEN ExtractPredicates(condition, <<>>) ELSE <<>>,
                 target_table.alias, TRUE),
      <<>>)

\* delete_expr / update_expr with table_scan pushed as its child becomes the output.
OverTableScan(t, kind, args, table_scan) ==
  [t EXCEPT !.out = PushChild(New(t, kind, args, <<>>), table_scan), !.next = @ + 2]

\* Visit(DeleteStatement) collecting the predicates the way a SELECT does,
\* sub-queries rewritten: C9 fails under it.
DeleteCollected(s, c) ==
  [t |-> IF c.t.err # "none" THEN c.t
         ELSE OverTableScan(c.t, "Delete",
                            [db |-> GetDatabaseOid(s.table.db), ns |-> GetDefaultNamespace,
                             table |-> GetTableOid(s.table.table)],
                            New([c.t EXCEPT !.next = @ + 1], "Get",
                                LogicalGet(GetDatabaseOid(s.table.db), GetDefaultNamespace,
                                           GetTableOid(s.table.table), c.vec, s.table.alias, TRUE),
                                <<>>)),
   n |-> [s EXCEPT !.where = c.n]]

VisitDeleteRewriting(t, s) ==
  DeleteCollected(s, IF s.where # NullExpr THEN CollectPredicates(t, s.where, FALSE, <<>>)
                     ELSE [t |-> t, n |-> s.where, vec |-> <<>>])

VisitDelete(t, s) ==
  [t |-> OverTableScan(t, "Delete",
                       [db |-> GetDatabaseOid(s.table.db), ns |-> GetDefaultNamespace,
                        table |-> GetTableOid(s.table.table)],
                       TableScan(t, s.table, s.where)),
   n |-> s]

VisitUpdate(t, s) ==
  [t |-> OverTableScan(t, "Update",
                       [db |-> GetDatabaseOid(s.table.db), ns |-> GetDefaultNamespace, alias |-> s.table.alias,
                        table |-> GetTableOid(s.table.table), updates |-> s.updates],
                       TableScan(t, s.table, s.where)),
   n |-> s]

(***************************************************************************)
(* Visit(CopyStatement)                                                    *)
(***************************************************************************)
ExternalFile(s) ==
  [format |-> s.format, path |-> s.path, delimiter |-> s.delimiter, quote |-> s.quote, escape |-> s.escape]

\* src is what Accept on the source of COPY ... TO returned, n the statement then.
Export(src, n) ==
  [t |-> IF src.t.err # "none" THEN src.t
         ELSE Output(src.t, "ExportExternalFile", ExternalFile(n), <<src.t.out>>),
   n |-> n]

CopySelect(s, r) == Export(r, [s EXCEPT !.select = r.n])
CopyTable(s, r) == Export(r, [s EXCEPT !.table = r.n])

VisitCopy(t, s) ==
  IF s.is_from
  THEN [t |-> Output([t EXCEPT !.next = @ + 1], "InsertSelect",
                     [db |-> GetDatabaseOid(s.table.db), ns |-> GetDefaultNamespace,
                      table |-> GetTableOid(s.table.table)],
                     <<New(t, "ExternalFileGet", ExternalFile(s), <<>>)>>),
        n |-> s]
  ELSE IF s.select # NullStmt THEN CopySelect(s, Accept(t, s.select))
  ELSE CopyTable(s, Accept(t, s.table))

(***************************************************************************)
(* Statement constructors.                                                 *)
(***************************************************************************)
Select(columns, from, where, groupby, distinct, orderby, limit, depth) ==
  [stmt |-> "Select", columns |-> columns, from |-> from, where |-> where, groupby |-> groupby,
   distinct |-> distinct, orderby |-> orderby, limit |-> limit, depth |-> depth]
GroupBy(columns, having) == [present |-> TRUE, columns |-> columns, having |-> having]
OrderBy(exprs, types) == [present |-> TRUE, exprs |-> exprs, types |-> types]
Limit(limit, offset) == [present |-> TRUE, limit |-> limit, offset |-> offset]

TableRef(select, join, list, table, alias) ==
  [select |-> select, join |-> join, list |-> list, table |-> table, alias |-> alias, db |-> ""]
Table(name) == TableRef(NullStmt, NullJoin, <<>>, name, name)
TableList(list) == TableRef(NullStmt, NullJoin, list, "", "")
Derived(select, alias) == TableRef(select, NullJoin, <<>>, "", alias)
Join(jtype, left, right, cond) ==
  TableRef(NullStmt, [jtype |-> jtype, left |-> left, right |-> right, cond |-> cond], <<>>, "", "")

Plain(columns, from, where, depth) == Select(columns, from, where, NoGroupBy, FALSE, NoOrderBy, NoLimit, depth)

(***************************************************************************)
(* The explored statements.  Depth 0 is the outermost scope, over t (and   *)
(* whatever FROM lists); sub-selects are at depth 1, over u; one is nested *)
(* at depth 2, over v.                                                     *)
(***************************************************************************)
Eq(a, b) == Expr("COMPARE_EQUAL", <<a, b>>)
Lt(a, b) == Expr("COMPARE_LESS_THAN", <<a, b>>)
Gt(a, b) == Expr("COMPARE_GREATER_THAN", <<a, b>>)
In(a, b) == Expr("COMPARE_IN", <<a, b>>)
Exists(a) == Expr("OPERATOR_EXISTS", <<a>>)
And(a, b) == Expr("CONJUNCTION_AND", <<a, b>>)
Or(a, b) == Expr("CONJUNCTION_OR", <<a, b>>)

Tc1 == Col("t", "c1", 0)
Tc2 == Col("t", "c2", 0)
Uc0 == Col("u", "c1", 0)
Uc1 == Col("u", "c1", 1)
Uc2 == Col("u", "c2", 1)
Vc1 == Col("v", "c1", 2)

SimplePred == Eq(Tc1, Const)
OtherPred == Lt(Tc2, Const)
JoinPred == Eq(Tc1, Uc0)

SubColumns == { <<Const>>, <<Uc1>>, <<Agg(Uc2)>>, <<Agg(Uc2), Uc1>>, <<Uc1, Uc2>> }
SubWheres == { NullExpr, Eq(Tc1, Uc1), Eq(Uc1, Tc1), Eq(Uc1, Const), Eq(Const, Const), Lt(Uc1, Tc1),
               Eq(Expr("OPERATOR_PLUS", <<Tc1, Const>>), Uc1), And(Eq(Uc1, Tc1), Eq(Tc1, Tc2)) }

SubSelects ==
  { Select(c, Table("u"), w, g, FALSE, NoOrderBy, NoLimit, 1) :
      c \in SubColumns, w \in SubWheres, g \in {NoGroupBy, GroupBy(<<Uc1>>, NullExpr)} }

\* SELECT u.c1 FROM u and SELECT 1 FROM u WHERE u.c1 = t.c1
SubA == Plain(<<Uc1>>, Table("u"), NullExpr, 1)
SubB == Plain(<<Const>>, Table("u"), Eq(Uc1, Tc1), 1)
\* sub-selects with their own joins, sub-selects, DISTINCT and LIMIT
SubNested == Plain(<<Uc1>>, Table("u"), In(Uc1, Sub(Plain(<<Vc1>>, Table("v"), Eq(Vc1, Const), 2))), 1)
SubJoin == Plain(<<Uc1>>, Join("INNER", Table("u"), Table("v"), Eq(Uc1, Col("v", "c1", 1))), Eq(Uc1, Tc1), 1)
SubShaped == Select(<<Uc1>>, Table("u"), Eq(Uc1, Const), GroupBy(<<Uc1>>, Gt(Agg(Uc2), Const)), TRUE,
                    NoOrderBy, Limit(3, 0), 1)
SubFailing == Plain(<<Uc1>>, Join("INNER", Table("u"), Table("v"), Eq(Uc1, Col("v", "c1", 1))),
                    Or(Exists(Sub(Plain(<<Vc1>>, Table("v"), NullExpr, 2))), Eq(Uc1, Const)), 1)

SubPreds(s) == { In(Tc1, Sub(s)), Exists(Sub(s)), Eq(Tc1, Sub(s)), Gt(Sub(s), Tc1) }

PlainPreds == { SimplePred, And(SimplePred, OtherPred), Or(SimplePred, OtherPred),
                And(And(SimplePred, OtherPred), JoinPred) }
TwoSubPreds == { Eq(Sub(SubA), Sub(SubA)), Lt(Sub(SubA), Sub(SubB)), In(Sub(SubA), Sub(SubA)) }
\* a comparison of two sub-selects below the root of a conjunct
NestedTwoSubPreds == { In(Eq(Sub(SubA), Sub(SubB)), Sub(SubA)), And(SimplePred, In(Gt(Sub(SubB), Sub(SubA)), Sub(SubB))) }
UnsupportedPreds == { Or(Exists(Sub(SubA)), SimplePred), Expr("OPERATOR_NOT", <<Exists(Sub(SubB))>>),
                      Eq(Expr("OPERATOR_PLUS", <<Tc1, Sub(SubA)>>), Const),
                      Expr("COMPARE_NOT_EQUAL", <<Tc1, Sub(SubA)>>) }
ConjPreds == { And(In(Tc1, Sub(SubA)), SimplePred), And(SimplePred, Exists(Sub(SubB))),
               And(In(Tc1, Sub(SubA)), Eq(Tc2, Sub(SubB))),
               And(In(Tc1, Sub(SubA)), Or(Exists(Sub(SubA)), SimplePred)),
               And(Exists(Sub(SubB)), In(Tc1, Sub(Plain(<<Agg(Uc2), Uc1>>, Table("u"), NullExpr, 1)))),
               And(SimplePred, Eq(Sub(SubA), Sub(SubB))) }

WherePreds ==
  PlainPreds \cup TwoSubPreds \cup NestedTwoSubPreds \cup UnsupportedPreds \cup ConjPreds
  \cup {Exists(Sub(s)) : s \in SubSelects}
  \cup UNION {SubPreds(s) : s \in {SubA, SubB, SubNested, SubJoin, SubShaped, SubFailing}}

ImplicitLists == UNION {[1..k -> {Table(n) : n \in {"t", "u", "v"}}] : k \in 1..MaxList}
JoinConds == { And(JoinPred, SimplePred), In(Tc1, Sub(SubA)), Gt(Sub(SubB), Uc0),
               Or(Exists(Sub(SubA)), JoinPred) }
DerivedSelects == { Plain(<<Uc1, As(Uc2, "E")>>, Table("u"), Eq(Uc1, Const), 1),
                    Plain(<<Uc1>>, Table("u"), In(Uc1, Sub(Plain(<<Vc1>>, Table("v"), NullExpr, 2))), 1),
                    Plain(<<As(Uc1, "x"), As(Uc2, "X"), Const>>, Join("INNER", Table("u"), Table("v"), JoinPred),
                          NullExpr, 1) }

OtherRefs ==
  {Table("t")}
  \cup {Join(j, Table("t"), Table("u"), c) : j \in {"INNER", "OUTER", "LEFT", "RIGHT", "SEMI", "INVALID"}, c \in JoinConds}
  \cup {Join("INNER", Join("INNER", Table("t"), Table("u"), JoinPred), Table("v"), SimplePred),
        Join("LEFT", Table("t"), Join("INNER", Table("u"), Table("v"), In(Tc1, Sub(SubA))), JoinPred)}
  \cup {Derived(s, "D") : s \in DerivedSelects}
  \cup {TableList(<<Derived(s, "d"), Table("t")>>) : s \in DerivedSelects}

TopColumns == { <<Star>>, <<Agg(Tc2)>>, <<Agg(Tc2), Tc1>> }
TopGroupBys == { NoGroupBy, GroupBy(<<Tc1>>, NullExpr), GroupBy(<<Tc1, Tc2>>, Gt(Agg(Tc2), Const)),
                 GroupBy(<<Tc1>>, And(In(Tc1, Sub(SubA)), Gt(Agg(Tc2), Const))) }
TopOrderLimits == { <<NoOrderBy, NoLimit>>, <<OrderBy(<<Tc1>>, <<"kOrderDesc">>), Limit(-1, 0)>>,
                    <<OrderBy(<<Tc1, Tc2>>, <<"kOrderAsc", "kOrderDesc">>), Limit(5, 2)>> }

\* every clause of the outer SELECT varies, over a few FROM and WHERE
ShapeSelects ==
  { Select(c, Table("t"), w, g, d, ol[1], ol[2], 0) :
      c \in TopColumns, w \in {NullExpr, And(Exists(Sub(SubB)), OtherPred)},
      g \in TopGroupBys, d \in BOOLEAN, ol \in TopOrderLimits }
  \cup { Select(<<Agg(Tc2)>>, f, SimplePred, g, TRUE, NoOrderBy, Limit(10, 0), 0) :
           f \in {NullRef, Join("INNER", Table("t"), Table("u"), JoinPred)}, g \in TopGroupBys }
\* FROM varies
FromSelects ==
  { Plain(<<Star>>, TableList(l), w, 0) : l \in ImplicitLists, w \in {SimplePred} }
  \cup { Plain(<<Star>>, f, w, 0) : f \in OtherRefs, w \in {NullExpr, In(Tc2, Sub(SubB))} }
\* WHERE varies
WhereSelects == { Plain(<<Star>>, Table("t"), w, 0) : w \in WherePreds }

SelectStatements == ShapeSelects \cup FromSelects \cup WhereSelects

\* rows of 1..width values, and lists of 1..MaxRows such rows
ValueRows(width) == UNION {[1..k -> {Const}] : k \in 1..width}
InsertValues(width, rows) == UNION {[1..k -> ValueRows(width)] : k \in 1..rows}
InsertColumns == UNION {[1..k -> {"c1", "c2", "zz"}] : k \in 1..MaxInsertCols}
InsertSources == { Plain(<<Star>>, Table("u"), NullExpr, 0), Plain(<<Star>>, Table("u"), In(Tc1, Sub(SubA)), 0),
                   Plain(<<Agg(Tc2), Tc1>>, Table("u"), NullExpr, 0),
                   Select(<<Agg(Tc2)>>, Table("t"), SimplePred, GroupBy(<<Tc1>>, Gt(Agg(Tc2), Const)), TRUE,
                          OrderBy(<<Tc1>>, <<"kOrderAsc">>), Limit(3, 0), 0) }

InsertValuesStatement(n, c, v) ==
  [stmt |-> "Insert", itype |-> "VALUES", table |-> Table(n), columns |-> c, values |-> v, select |-> NullStmt]

InsertStatements ==
  { InsertValuesStatement(n, <<>>, v) : n \in DOMAIN Schemas, v \in InsertValues(4, MaxRows) }
  \cup { InsertValuesStatement("t", c, v) : c \in InsertColumns, v \in InsertValues(MaxInsertCols + 1, MaxRows) }
  \cup { InsertValuesStatement("u", c, v) : c \in InsertColumns, v \in InsertValues(MaxInsertCols + 1, 1) }
  \cup { [stmt |-> "Insert", itype |-> "SELECT", table |-> Table("t"), columns |-> <<>>, values |-> <<>>,
          select |-> q] : q \in InsertSources }

DmlConditions == {NullExpr} \cup PlainPreds \cup UnsupportedPreds \cup ConjPreds \cup SubPreds(SubB)
SetClauses == { <<[column |-> "c2", value |-> Expr("OPERATOR_PLUS", <<Tc2, Const>>)]>>,
                <<[column |-> "c1", value |-> Const], [column |-> "c2", value |-> Const]>> }

DeleteStatements == { [stmt |-> "Delete", table |-> Table("t"), where |-> w] : w \in DmlConditions }
UpdateStatements ==
  { [stmt |-> "Update", table |-> Table("t"), where |-> w, updates |-> c] : w \in DmlConditions, c \in SetClauses }

CopyStatements ==
  { [stmt |-> "Copy", is_from |-> f, table |-> Table("t"), select |-> q, format |-> "CSV", path |-> "/tmp/f",
     delimiter |-> ",", quote |-> "'", escape |-> "\\"] :
      f \in BOOLEAN, q \in {NullStmt} \cup InsertSources }

OtherStatements ==
  { [stmt |-> k] : k \in {"Create", "Drop", "Prepare", "Execute", "Transaction", "Analyze", "CreateFunction"} }

\* statements of the calls that follow the first call on a transformer
LaterSelects ==
  { Plain(<<Star>>, Table("t"), SimplePred, 0),
    Plain(<<Star>>, Join("INNER", Table("t"), Table("u"), JoinPred), NullExpr, 0),
    Plain(<<Star>>, Join("INNER", Table("t"), Table("u"), JoinPred), Or(Exists(Sub(SubA)), SimplePred), 0),
    Plain(<<Star>>, Table("t"), Exists(Sub(SubJoin)), 0),
    Plain(<<Star>>, Table("t"), Exists(Sub(SubFailing)), 0) }
LaterInserts == { InsertValuesStatement("t", <<"c1">>, <<<<Const>>>>), InsertValuesStatement("u", <<>>, <<<<Const>>>>) }
LaterConditions == {NullExpr, And(SimplePred, Exists(Sub(SubB)))}
LaterDeletes == { [stmt |-> "Delete", table |-> Table("t"), where |-> w] : w \in LaterConditions }
LaterUpdates ==
  { [stmt |-> "Update", table |-> Table("t"), where |-> w, updates |-> c] : w \in LaterConditions, c \in SetClauses }
LaterCopies == { c \in CopyStatements : c.select \in {NullStmt, Plain(<<Star>>, Table("u"), NullExpr, 0)} }

(***************************************************************************)
(* ConvertToOpExpression and the transformer's state.                      *)
(***************************************************************************)
\* recorded as the result of a call that threw
Thrown == [op |-> "THROWN"]

\* The Visit of the other statement classes, and of GroupByDescription,
\* OrderByDescription and LimitDescription: empty.
VisitNothing(t, s) == [t |-> t, n |-> s]

\* An expression class whose Visit the transformer does not override reaches
\* the base visitor, which accepts the visitor on the children.
VisitBase(t, e) == AcceptChildren(t, e, 1)

Accept(t, n) ==
  IF t.err # "none" THEN [t |-> t, n |-> n]
  ELSE IF "type" \in DOMAIN n
       THEN IF n.type \in ComparisonTypes THEN VisitComparison(t, n)
            ELSE IF n.type \in OperatorTypes THEN VisitOperator(t, n)
            ELSE VisitBase(t, n)
  ELSE IF "jtype" \in DOMAIN n THEN VisitJoin(t, n)
  ELSE IF "list" \in DOMAIN n THEN VisitTableRef(t, n)
  ELSE CASE n.stmt = "Select" -> VisitSelect(t, n)
         [] n.stmt = "Insert" -> VisitInsert(t, n)
         [] n.stmt = "Delete" -> VisitDelete(t, n)
         [] n.stmt = "Update" -> VisitUpdate(t, n)
         [] n.stmt = "Copy" -> VisitCopy(t, n)
         [] OTHER -> VisitNothing(t, n)

\* The visitor as a call starts with it: out is the output slot then.
Transformer(out, order) ==
  [out |-> out, preds |-> predicates_, rw |-> <<>>, err |-> "none", order |-> order, next |-> 0, scopes |-> <<>>]

\* What a call leaves behind: r is what op->Accept returned.
Returned(s, r) ==
  /\ calls < MaxCalls
  /\ calls' = calls + 1
  /\ output_expr_' = r.t.out
  /\ predicates_' = r.t.preds
  /\ op' = s
  /\ ast' = r.n
  /\ err' = r.t.err
  /\ rewrites' = r.t.rw
  /\ scopes' = r.t.scopes
  /\ entry_expr' = output_expr_.op
  /\ ret' = IF r.t.err = "none" THEN r.t.out ELSE Thrown

\* ConvertToOpExpression without output_expr_ = nullptr at its start: C11
\* fails under it.
ConvertWithoutReset(s, order) == Returned(s, Accept(Transformer(output_expr_, order), s))

ConvertToOpExpression(s, order) == Returned(s, Accept(Transformer(NullOp, order), s))

Init ==
  /\ output_expr_ = NullOp
  /\ predicates_ = <<>>
  /\ op = NullStmt
  /\ ast = NullStmt
  /\ ret = NullOp
  /\ err = "none"
  /\ rewrites = <<>>
  /\ scopes = <<>>
  /\ entry_expr = NullOp.op
  /\ calls = 0

First(all, later) == IF calls = 0 THEN all ELSE later

TransformSelect == \E s \in First(SelectStatements, LaterSelects) : ConvertToOpExpression(s, <<>>)
TransformInsert ==
  \E s \in First(InsertStatements, LaterInserts) : \E order \in InsertOrders(s) : ConvertToOpExpression(s, order)
TransformDelete == \E s \in First(DeleteStatements, LaterDeletes) : ConvertToOpExpression(s, <<>>)
TransformUpdate == \E s \in First(UpdateStatements, LaterUpdates) : ConvertToOpExpression(s, <<>>)
TransformCopy == \E s \in First(CopyStatements, LaterCopies) : ConvertToOpExpression(s, <<>>)
TransformOther == \E s \in OtherStatements : ConvertToOpExpression(s, <<>>)

Next ==
  \/ TransformSelect
  \/ TransformInsert
  \/ TransformDelete
  \/ TransformUpdate
  \/ TransformCopy
  \/ TransformOther

Spec == Init /\ [][Next]_vars

(***************************************************************************)
(* Properties.  They read the record of the last call: op is the statement *)
(* as passed, ast the statement afterwards, ret the tree returned.         *)
(***************************************************************************)
Succeeded == calls > 0 /\ err = "none"

IsTree(n) == "children" \in DOMAIN n

\* an operator tree without the identities of its nodes
RECURSIVE Shape(_)
Shape(n) == OperatorExpression(n.op, n.args, [i \in 1..Len(n.children) |-> Shape(n.children[i])])

\* the nodes of an operator tree
RECURSIVE Nodes(_)
Nodes(n) == IF ~IsTree(n) THEN {} ELSE {n} \cup UNION {Nodes(n.children[i]) : i \in 1..Len(n.children)}

\* how many nodes of an operator tree are of the kind
RECURSIVE CountSeq(_, _, _)
RECURSIVE CountOp(_, _)
CountSeq(children, kind, i) ==
  IF i > Len(children) THEN 0 ELSE CountOp(children[i], kind) + CountSeq(children, kind, i + 1)
CountOp(n, kind) ==
  IF ~IsTree(n) THEN 0 ELSE (IF n.op = kind THEN 1 ELSE 0) + CountSeq(n.children, kind, 1)

ClauseOps == {"Limit", "Distinct", "Filter", "AggregateAndGroupBy"}
SubqueryJoins == {"MarkJoin", "SingleJoin"}

\* The clause operators met from n down the outer relation (the first child),
\* top first, up to the tree of FROM; the joins of rewritten sub-queries,
\* whose first child is the outer relation, are passed through.
RECURSIVE Spine(_)
Spine(n) ==
  IF n.op \in ClauseOps THEN <<n.op>> \o Spine(n.children[1])
  ELSE IF n.op \in SubqueryJoins THEN Spine(n.children[1])
  ELSE <<>>

\* the tree of FROM below the clause operators
RECURSIVE FromTree(_)
FromTree(n) == IF n.op \in ClauseOps \cup SubqueryJoins THEN FromTree(n.children[1]) ELSE n

\* Place of a clause operator in the order: a Filter with an aggregation
\* below it is the one of HAVING, any other the one of WHERE.
ClauseRank(spine, i) ==
  CASE spine[i] = "Limit" -> 5
    [] spine[i] = "Distinct" -> 4
    [] spine[i] = "AggregateAndGroupBy" -> 2
    [] OTHER -> IF \E j \in (i + 1)..Len(spine) : spine[j] = "AggregateAndGroupBy" THEN 3 ELSE 1

InClauseOrder(spine) ==
  \A i, j \in 1..Len(spine) : i < j => ClauseRank(spine, i) > ClauseRank(spine, j)

\* C1: in the tree of every successful transform, at every node, the clause
\* operators down the outer relation are in the order Limit, Distinct,
\* HAVING-Filter, AggregateAndGroupBy, WHERE-Filter from the top, each at
\* most once: so it is for the outer SELECT and for every nested SELECT.
C1_ClauseOrder == Succeeded => \A n \in Nodes(ret) : InClauseOrder(Spine(n))

\* C1 witness: a SELECT with all five clauses transformed successfully.
C1_AllFiveClauses ==
  /\ Succeeded
  /\ op.stmt = "Select"
  /\ Spine(ret) = <<"Limit", "Distinct", "Filter", "AggregateAndGroupBy", "Filter">>

\* the left-deep chain over the first k entries of a FROM list of tables
RECURSIVE LeftDeepChain(_, _)
LeftDeepChain(list, k) ==
  IF k = 1 THEN OperatorExpression("Get", LogicalGet(GetDatabaseOid(list[1].db), GetDefaultNamespace,
                                                     GetTableOid(list[1].table), <<>>, list[1].alias, FALSE), <<>>)
  ELSE OperatorExpression("InnerJoin", [none |-> TRUE],
                          <<LeftDeepChain(list, k - 1),
                            OperatorExpression("Get", LogicalGet(GetDatabaseOid(list[k].db), GetDefaultNamespace,
                                                                 GetTableOid(list[k].table), <<>>, list[k].alias,
                                                                 FALSE), <<>>)>>)

ImplicitJoinOfTables ==
  /\ Succeeded
  /\ op.stmt = "Select"
  /\ op.from # NullRef
  /\ op.from.select = NullStmt
  /\ op.from.join = NullJoin
  /\ Len(op.from.list) > 1
  /\ \A i \in 1..Len(op.from.list) : op.from.list[i].select = NullStmt

\* C2: for a FROM list of n > 1 tables the tree of FROM is the left-deep
\* chain of n-1 InnerJoin nodes over the n tables in list order.
C2_LeftDeepJoin ==
  ImplicitJoinOfTables =>
    /\ Shape(FromTree(ret)) = LeftDeepChain(op.from.list, Len(op.from.list))
    /\ CountOp(FromTree(ret), "InnerJoin") = Len(op.from.list) - 1

\* C2: what the loop builds instead: n InnerJoin nodes, the first entry
\* being the leaf of both sides of the lowest.
C2_FirstEntryJoinedWithItself ==
  ImplicitJoinOfTables =>
    /\ CountOp(FromTree(ret), "InnerJoin") = Len(op.from.list)
    /\ CountOp(FromTree(ret), "Get") = Len(op.from.list) + 1

\* how many elements of a sequence equal x
RECURSIVE Occurrences(_, _, _)
Occurrences(seq, x, i) ==
  IF i > Len(seq) THEN 0 ELSE (IF seq[i] = x THEN 1 ELSE 0) + Occurrences(seq, x, i + 1)

\* C3: after a successful transform the tree returned has a MarkJoin or
\* SingleJoin node for every join GenerateSubqueryTree created.
C3_RewriteJoinsInTree ==
  Succeeded => \A kind \in SubqueryJoins : CountOp(ret, kind) = Occurrences(rewrites, kind, 1)

\* C3: the tree never has more such joins than rewrites were made.
C3_NoJoinWithoutRewrite ==
  Succeeded => \A kind \in SubqueryJoins : CountOp(ret, kind) <= Occurrences(rewrites, kind, 1)

(***************************************************************************)
(* INSERT ... VALUES                                                       *)
(***************************************************************************)
InsertOfValues == calls > 0 /\ op.stmt = "Insert" /\ op.itype = "VALUES"
WithoutColumns == InsertOfValues /\ op.columns = <<>>
WithColumns == InsertOfValues /\ op.columns # <<>>

TargetSchema == GetSchema(op.table.table)
SchemaOids == {TargetSchema[i].oid : i \in 1..Len(TargetSchema)}
Elements(seq) == {seq[i] : i \in 1..Len(seq)}
Optional(column) == column.nullable \/ column.hasdef

\* C4: a successful INSERT ... VALUES emits col_ids within the oids of the
\* schema, and no row has more values than there are col_ids.
C4_RowsFitColIds ==
  (InsertOfValues /\ err = "none") =>
    /\ Elements(ret.args.col_ids) \subseteq SchemaOids
    /\ \A i \in 1..Len(op.values) : Len(op.values[i]) <= Len(ret.args.col_ids)

\* C4: the col_ids are always oids of the schema; without a column list the
\* rows fit them as well.
C4_ColIdsOfSchema ==
  (InsertOfValues /\ err = "none") =>
    /\ Elements(ret.args.col_ids) \subseteq SchemaOids
    /\ op.columns = <<>> => \A i \in 1..Len(op.values) : Len(op.values[i]) <= Len(ret.args.col_ids)

\* a row with more values than the schema has columns
Wider(row) == Len(row) > Len(TargetSchema)
\* a row that leaves a trailing column without a value it needs
LacksValue(row) ==
  /\ Len(row) <= Len(TargetSchema)
  /\ \E j \in (Len(row) + 1)..Len(TargetSchema) : ~Optional(TargetSchema[j])
Offending == {i \in 1..Len(op.values) : Wider(op.values[i]) \/ LacksValue(op.values[i])}
FirstOffending == CHOOSE i \in Offending : \A j \in Offending : i <= j

\* C5 as stated: without a column list, a statement with a row wider than
\* the schema fails with the error of too many values, and one whose rows
\* are no wider succeeds iff no row lacks a value, failing with the not-null
\* violation otherwise.
C5_WiderRowAlwaysTooMany ==
  WithoutColumns =>
    IF \E i \in 1..Len(op.values) : Wider(op.values[i]) THEN err = "Catalog.TooManyValues"
    ELSE IF \E i \in 1..Len(op.values) : LacksValue(op.values[i]) THEN err = "Catalog.NotNullViolation"
    ELSE /\ err = "none"
         /\ ret.args.col_ids = [i \in 1..Len(TargetSchema) |-> TargetSchema[i].oid]

\* C5 amended: without a column list the rows are checked in list order and
\* the first offending row decides the error: too many values when it is
\* wider than the schema, the not-null violation when it lacks a value; with
\* no offending row the Insert is emitted over all columns in schema order.
C5_FirstOffendingRowDecides ==
  WithoutColumns =>
    IF Offending = {}
    THEN /\ err = "none"
         /\ ret.op = "Insert"
         /\ ret.args.col_ids = [i \in 1..Len(TargetSchema) |-> TargetSchema[i].oid]
    ELSE err = IF Wider(op.values[FirstOffending]) THEN "Catalog.TooManyValues"
               ELSE "Catalog.NotNullViolation"

\* C5 witness: a wider row behind a row that lacks a value.
C5_WiderRowBehindLackingRow ==
  /\ WithoutColumns
  /\ Len(op.values) = 2
  /\ LacksValue(op.values[1])
  /\ Wider(op.values[2])
  /\ err = "Catalog.NotNullViolation"

SizesDiffer == \E i \in 1..Len(op.values) : Len(op.values[i]) # Len(op.columns)
FirstDiffering ==
  CHOOSE i \in 1..Len(op.values) :
    /\ Len(op.values[i]) # Len(op.columns)
    /\ \A j \in 1..(i - 1) : Len(op.values[j]) = Len(op.columns)
Resolves(name) == \E j \in 1..Len(TargetSchema) : TargetSchema[j].name = name
ListedOids == {TargetSchema[j].oid : j \in {k \in 1..Len(TargetSchema) : TargetSchema[k].name \in Elements(op.columns)}}

\* C6: with a column list the statement succeeds iff every row has as many
\* values as columns are listed, every listed name is a column of the schema
\* and every column not listed is nullable or has a default; the first of
\* these to fail, in this order, decides the error; on success col_ids has
\* the oid of every listed column, once each.
C6_ColumnListChecks ==
  WithColumns =>
    IF SizesDiffer
    THEN err = IF Len(op.values[FirstDiffering]) > Len(op.columns) THEN "Catalog.TooManyValues"
               ELSE "Catalog.TooFewValues"
    ELSE IF \E i \in 1..Len(op.columns) : ~Resolves(op.columns[i]) THEN err = "Catalog.UnknownColumn"
    ELSE IF \E j \in 1..Len(TargetSchema) : TargetSchema[j].oid \notin ListedOids /\ ~Optional(TargetSchema[j])
         THEN err = "Catalog.NotNullViolation"
    ELSE /\ err = "none"
         /\ ret.op = "Insert"
         /\ Elements(ret.args.col_ids) = ListedOids
         /\ Len(ret.args.col_ids) = Cardinality(ListedOids)

\* C6 witness: two columns listed, all resolved, two rows of two values.
C6_TwoColumnsInserted ==
  /\ WithColumns
  /\ err = "none"
  /\ Len(op.values) = 2
  /\ Cardinality(Elements(ret.args.col_ids)) = 2

(***************************************************************************)
(* Predicates with sub-selects                                             *)
(***************************************************************************)
\* a comparison of the five kinds between two row-subqueries
TwoSubselects(e) ==
  /\ e.type \in SubqueryCompareTypes
  /\ e.children[1].type = "ROW_SUBQUERY"
  /\ e.children[2].type = "ROW_SUBQUERY"

\* a SELECT over the table t alone with a WHERE clause: nothing before the
\* WHERE clause can fail
SelectFromTableWhere == calls > 0 /\ op.stmt = "Select" /\ op.from = Table("t") /\ op.where # NullExpr

\* the top-level conjuncts of the WHERE clause as passed
RECURSIVE ConjunctsOf(_)
ConjunctsOf(e) ==
  IF e.type = "CONJUNCTION_AND" THEN ConjunctsOf(e.children[1]) \cup ConjunctsOf(e.children[2]) ELSE {e}

TwoSubselectsConjunct == SelectFromTableWhere /\ \E c \in ConjunctsOf(op.where) : TwoSubselects(c)

C7_ScalarCompareBelowIn ==
  /\ SelectFromTableWhere
  /\ op.where.type = "COMPARE_IN"
  /\ TwoSubselects(op.where.children[1])
  /\ err = "NotImplemented.ScalarSubqueryCompare"

\* SELECT * FROM t WHERE EXISTS (SELECT 1 FROM u WHERE u.c1 = t.c1)
ExistsQuery ==
  Plain(<<Star>>, Table("t"), Exists(Sub(Plain(<<Const>>, Table("u"), Eq(Col("u", "c1", 1), Col("t", "c1", 0)), 1))), 0)

GetOf(name) ==
  OperatorExpression("Get", LogicalGet(GetDatabaseOid(""), GetDefaultNamespace, GetTableOid(name), <<>>, name, FALSE),
                     <<>>)

\* the single predicate IS_NOT_NULL(1): the EXISTS node re-typed, its child
\* the only select element of the sub-select
IsNotNullFilter ==
  /\ ret.op = "Filter"
  /\ Len(ret.args.predicates) = 1
  /\ ret.args.predicates[1].expr.type = "OPERATOR_IS_NOT_NULL"
  /\ ret.args.predicates[1].expr.children = <<Const>>
  /\ ast.where = ret.args.predicates[1].expr
  /\ Len(ret.children) = 1
  /\ ret.children[1].op = "MarkJoin"
  /\ Len(ret.children[1].children) = 2
  /\ Shape(ret.children[1].children[1]) = GetOf("t")

\* C8 as stated: the Filter of IS_NOT_NULL is over MarkJoin(Get(t), Get(u)).
C8_MarkJoinOverGets ==
  (calls > 0 /\ op = ExistsQuery) =>
    /\ err = "none"
    /\ IsNotNullFilter
    /\ Shape(ret.children[1].children[2]) = GetOf("u")

\* C8 amended: the Filter of IS_NOT_NULL is over a MarkJoin whose first child
\* is Get(t) and whose second child is the tree of the sub-select: the
\* Filter of its WHERE clause, [u.c1 = t.c1], over Get(u).
C8_MarkJoinOverSubselectTree ==
  (calls > 0 /\ op = ExistsQuery) =>
    /\ err = "none"
    /\ IsNotNullFilter
    /\ Shape(ret.children[1].children[2]) =
         OperatorExpression("Filter",
                            [predicates |-> <<AnnotatedExpression(Eq(Col("u", "c1", 1), Col("t", "c1", 0)),
                                                                  {"t", "u"})>>],
                            <<GetOf("u")>>)

\* C8 witness: the query has been transformed.
C8_ExistsTransformed == calls > 0 /\ op = ExistsQuery /\ err = "none" /\ CountOp(ret, "MarkJoin") = 1

(***************************************************************************)
(* DELETE and UPDATE                                                       *)
(***************************************************************************)
DmlCall == calls > 0 /\ op.stmt \in {"Delete", "Update"}

\* the conjuncts of an expression, left to right
RECURSIVE ConjunctList(_)
ConjunctList(e) ==
  IF e = NullExpr THEN <<>>
  ELSE IF e.type = "CONJUNCTION_AND" THEN ConjunctList(e.children[1]) \o ConjunctList(e.children[2])
  ELSE <<e>>

\* C9: DELETE and UPDATE always succeed with two nodes, a Delete or Update
\* over one Get for update whose predicates are the conjuncts of the WHERE
\* clause as passed; the statement is left as it was, and no Filter,
\* MarkJoin or SingleJoin is created.
C9_DmlTwoNodes ==
  DmlCall =>
    /\ err = "none"
    /\ ret.op = op.stmt
    /\ Cardinality(Nodes(ret)) = 2
    /\ Len(ret.children) = 1
    /\ ret.children[1].op = "Get"
    /\ ret.children[1].children = <<>>
    /\ ret.children[1].args.for_update
    /\ [i \in 1..Len(ret.children[1].args.predicates) |-> ret.children[1].args.predicates[i].expr]
         = ConjunctList(op.where)
    /\ ast = op
    /\ rewrites = <<>>
    /\ \A kind \in {"Filter", "MarkJoin", "SingleJoin"} : CountOp(ret, kind) = 0

\* C9 witness: a DELETE or UPDATE whose WHERE clause has a sub-query in one
\* of two conjuncts.
C9_DmlWithSubquery ==
  /\ DmlCall
  /\ err = "none"
  /\ op.where # NullExpr
  /\ HasSubquery(op.where)
  /\ Len(ret.children[1].args.predicates) = 2

(***************************************************************************)
(* RequireAggregation                                                      *)
(***************************************************************************)
RECURSIVE ContainsAggregate(_)
ContainsAggregate(e) ==
  e.type = "AGGREGATE" \/ \E i \in 1..Len(e.children) : ContainsAggregate(e.children[i])

AllAggregates(s) == \A i \in 1..Len(s.columns) : ContainsAggregate(s.columns[i])
NoAggregates(s) == \A i \in 1..Len(s.columns) : ~ContainsAggregate(s.columns[i])
Mixed(s) == s.groupby = NoGroupBy /\ ~AllAggregates(s) /\ ~NoAggregates(s)

Subqueryless(e) == e = NullExpr \/ ~HasSubquery(e)

\* a SELECT over t alone whose clauses have no sub-query: only
\* RequireAggregation can fail
SelectWithoutSubquery ==
  /\ calls > 0
  /\ op.stmt = "Select"
  /\ op.from = Table("t")
  /\ Subqueryless(op.where)
  /\ op.groupby # NoGroupBy => Subqueryless(op.groupby.having)

\* a SELECT over t alone WHERE EXISTS (sub-select)
SelectWhereExists ==
  /\ SelectFromTableWhere
  /\ op.where.type = "OPERATOR_EXISTS"
  /\ op.where.children[1].type = "ROW_SUBQUERY"

\* C10: with GROUP BY an aggregation is required whatever the select list;
\* without it none is required when no select element has an aggregate, one
\* is when all have, and a mix fails the transform with the aggregation-mix
\* error; a sub-select with a mix fails the whole transform the same way
\* when it is checked for admissibility, before anything is rewritten.
C10_RequireAggregation ==
  /\ SelectWithoutSubquery =>
       IF Mixed(op) THEN err = "Optimizer.AggregationMix" /\ ret = Thrown
       ELSE /\ err = "none"
            /\ (\E i \in 1..Len(Spine(ret)) : Spine(ret)[i] = "AggregateAndGroupBy")
                 <=> (op.groupby # NoGroupBy \/ AllAggregates(op))
  /\ (SelectWhereExists /\ Mixed(op.where.children[1].sub)) =>
       (err = "Optimizer.AggregationMix" /\ ret = Thrown /\ ast = op /\ rewrites = <<>>)

\* C10 witness: a sub-select mixing an aggregate and a column without GROUP
\* BY has aborted the transform.
C10_MixedSubselectAborts ==
  /\ SelectWhereExists
  /\ Mixed(op.where.children[1].sub)
  /\ err = "Optimizer.AggregationMix"

\* a select list mixing an aggregate and a column under GROUP BY aggregates
C10_MixedUnderGroupBy ==
  /\ SelectWithoutSubquery
  /\ op.groupby # NoGroupBy
  /\ ~AllAggregates(op)
  /\ ~NoAggregates(op)
  /\ err = "none"

(***************************************************************************)
(* C11: the output slot across calls.                                      *)
(***************************************************************************)
NoOpCall == calls > 0 /\ op \in OtherStatements

\* C11: a call on a statement of a no-op kind (Create, Drop, Prepare,
\* Execute, Transaction, Analyze, CreateFunction) returns no operator tree
\* and leaves the output slot null, whatever the slot held when the call
\* began; it throws nothing and leaves the statement as it was.
C11_NoOpReturnsNoTree ==
  NoOpCall => ret = NullOp /\ output_expr_ = NullOp /\ err = "none" /\ ast = op

\* C11 witness: a no-op call made while the slot still held the tree of an
\* earlier call has returned no tree.
C11_NoOpAfterTree ==
  /\ NoOpCall
  /\ calls > 1
  /\ entry_expr # NullOp.op
  /\ ret = NullOp

(***************************************************************************)
(* C12: the shape of a returned tree.                                      *)
(***************************************************************************)
JoinOps == {"InnerJoin", "LeftJoin", "RightJoin", "OuterJoin", "SemiJoin", "MarkJoin", "SingleJoin"}

\* the number of nodes met when the tree is walked from n, a node counted
\* once for every path that leads to it
RECURSIVE TreeSize(_)
RECURSIVE SizeFrom(_, _)
SizeFrom(children, i) == IF i > Len(children) THEN 0 ELSE TreeSize(children[i]) + SizeFrom(children, i + 1)
TreeSize(n) == 1 + SizeFrom(n.children, 1)

\* No node allocated by the call is met twice: no node has two parents and
\* no node is below itself.
OneParentEach(n) == Cardinality({m.id : m \in Nodes(n)}) = TreeSize(n)

\* the arities of the node kinds, with leaves the kinds that must have none
Arities(n, leaves) ==
  \A m \in Nodes(n) :
    /\ m.op \in JoinOps => Len(m.children) = 2
    /\ m.op \in ClauseOps => Len(m.children) = 1
    /\ m.op \in leaves => Len(m.children) = 0

\* C12 as stated: every returned tree is a tree, joins have 2 children,
\* Filter, AggregateAndGroupBy, Distinct and Limit have 1, and every get
\* operator (Get, QueryDerivedGet, ExternalFileGet) has none.
C12_GetsAreLeaves ==
  (Succeeded /\ ret # NullOp) =>
    OneParentEach(ret) /\ Arities(ret, {"Get", "QueryDerivedGet", "ExternalFileGet"})

\* C12 amended: every returned tree is a tree (no node of the call is met
\* twice on a walk from the root), joins have 2 children, Filter,
\* AggregateAndGroupBy, Distinct and Limit have 1, Get and ExternalFileGet
\* have none, and QueryDerivedGet has exactly 1, the tree of its SELECT.
C12_TreeWithArities ==
  (Succeeded /\ ret # NullOp) =>
    /\ OneParentEach(ret)
    /\ Arities(ret, {"Get", "ExternalFileGet"})
    /\ \A m \in Nodes(ret) : m.op = "QueryDerivedGet" => Len(m.children) = 1

\* C12 witness: a returned tree with a derived table in it, and one with
\* the Mark/Single join of a rewritten sub-query over an explicit join.
C12_DerivedTableReturned ==
  /\ Succeeded
  /\ \E m \in Nodes(ret) : m.op = "QueryDerivedGet" /\ Len(m.children) = 1 /\ TreeSize(m) > 2

C12_SubqueryJoinReturned ==
  /\ Succeeded
  /\ \E m \in Nodes(ret) : m.op \in SubqueryJoins /\ Len(m.children) = 2 /\ TreeSize(m) > 3

(***************************************************************************)
(* C13: the predicate accumulator and the SELECT scopes.                   *)
(***************************************************************************)
\* the conjuncts that the INNER joins of a FROM clause put into predicates_,
\* in the order of the visit: left, right, then the join's own condition;
\* a derived table keeps its conjuncts to itself
RECURSIVE OnConjuncts(_)
OnConjuncts(ref) ==
  IF ref.join = NullJoin THEN <<>>
  ELSE OnConjuncts(ref.join.left) \o OnConjuncts(ref.join.right)
       \o (IF ref.join.jtype = "INNER" THEN ConjunctList(ref.join.cond) ELSE <<>>)

\* the expressions of a predicate list
Exprs(predicates) == [i \in 1..Len(predicates) |-> predicates[i].expr]

\* a successful SELECT without aggregation, DISTINCT and LIMIT over a table
\* or an explicit join: the WHERE Filter, if any, is the root of its tree
PlainSelectDone ==
  /\ Succeeded
  /\ op.stmt = "Select"
  /\ op.groupby = NoGroupBy /\ ~op.distinct /\ op.limit = NoLimit
  /\ \A i \in 1..Len(op.columns) : ~ContainsAggregate(op.columns[i])
  /\ op.from # NullRef /\ op.from.select = NullStmt /\ op.from.list = <<>>

\* what the scope of the outermost SELECT has collected, as the statement
\* reads after the call
ScopePredicates == OnConjuncts(ast.from) \o ConjunctList(ast.where)

\* C13: every Visit(SelectStatement) that returns leaves predicates_ as it
\* found it, whatever its depth, and so does a successful call on a SELECT;
\* the Filter of the outermost SELECT holds exactly the conjuncts of its own
\* INNER JOIN conditions and WHERE clause, and no Filter below it holds one
\* of them.
C13_AccumulatorScoped ==
  /\ \A i \in 1..Len(scopes) : scopes[i].exit = scopes[i].entry
  /\ (Succeeded /\ op.stmt = "Select") =>
       /\ scopes # <<>>
       /\ scopes[Len(scopes)].depth = op.depth
       /\ predicates_ = scopes[Len(scopes)].entry
  /\ PlainSelectDone =>
       /\ ScopePredicates = <<>> => ret.op # "Filter"
       /\ ScopePredicates # <<>> => ret.op = "Filter" /\ Exprs(ret.args.predicates) = ScopePredicates
       /\ \A m \in Nodes(ret) \ {ret} :
            m.op = "Filter" => Elements(Exprs(m.args.predicates)) \cap Elements(ScopePredicates) = {}

\* C13 witness: a SELECT whose FROM clause put INNER JOIN conditions into
\* predicates_ has lowered a sub-select of its WHERE clause, which found them
\* on entry, and has returned a Filter over both clauses' conjuncts.
C13_SubselectUnderJoinConditions ==
  /\ PlainSelectDone
  /\ OnConjuncts(ast.from) # <<>>
  /\ ast.where # NullExpr
  /\ \E i \in 1..Len(scopes) :
       scopes[i].depth > 0 /\ Exprs(scopes[i].entry) = OnConjuncts(ast.from) /\ scopes[i].body = <<>>
  /\ \E m \in Nodes(ret) \ {ret} : m.op = "Filter"

(***************************************************************************)
(* C14: the admissible sub-selects.                                        *)
(***************************************************************************)
\* a SELECT over t alone whose WHERE clause is a comparison or EXISTS with a
\* sub-select as a child, the first thing GenerateSubqueryTree is called on
SubselectCall ==
  /\ SelectFromTableWhere
  /\ op.where.type \in {"OPERATOR_EXISTS", "COMPARE_IN"} \cup SubqueryCompareTypes
  /\ IsSupportedConjunctivePredicate(op.where)
  /\ \E i \in 1..Len(op.where.children) : op.where.children[i].type = "ROW_SUBQUERY"

\* that sub-select
SubselectCalled ==
  (CHOOSE e \in Elements(op.where.children) : e.type = "ROW_SUBQUERY").sub

Aggregating(s) == s.groupby # NoGroupBy \/ AllAggregates(s)

\* outer_relation.a = (expression of the sub-select's own depth), either way round
OuterColumnEquality(pred, depth) ==
  /\ pred.type = "COMPARE_EQUAL"
  /\ \E i \in {1, 2} :
       /\ pred.children[i].type = "COLUMN_VALUE"
       /\ pred.children[i].depth < depth
       /\ pred.children[3 - i].depth = depth

Admissible(s) ==
  Aggregating(s) =>
    \A pred \in Elements(ConjunctList(s.where)) : pred.depth < s.depth => OuterColumnEquality(pred, s.depth)

\* C14: a sub-select that needs no aggregation is admissible; one that does
\* is admissible iff every conjunct of its WHERE clause of a smaller depth
\* than its own is an equality of a bare outer column and an expression of
\* the sub-select's depth.  GenerateSubqueryTree fails with "Sub-select not
\* supported" exactly on the inadmissible ones, before anything is rewritten.
C14_AdmissibleSubselects ==
  (SubselectCall /\ ~Mixed(SubselectCalled)) =>
    IF Admissible(SubselectCalled)
    THEN err # "NotImplemented.SubSelect"
    ELSE err = "NotImplemented.SubSelect" /\ ret = Thrown /\ ast = op /\ rewrites = <<>>

\* C14 witness: an aggregating sub-select correlated by something else than
\* an equality with a bare outer column has been refused.
C14_CorrelatedAggregateRefused ==
  /\ SubselectCall
  /\ Aggregating(SubselectCalled)
  /\ ~Mixed(SubselectCalled)
  /\ \E pred \in Elements(ConjunctList(SubselectCalled.where)) :
       pred.type = "COMPARE_EQUAL" /\ pred.depth < SubselectCalled.depth
       /\ ~OuterColumnEquality(pred, SubselectCalled.depth)
  /\ err = "NotImplemented.SubSelect"

\* an aggregating sub-select correlated by outer_relation.a = inner column,
\* either way round, has been rewritten
C14_CorrelatedAggregateRewritten ==
  /\ SubselectCall
  /\ Aggregating(SubselectCalled)
  /\ SubselectCalled.where \in {Eq(Tc1, Uc1), Eq(Uc1, Tc1)}
  /\ err = "none"
  /\ rewrites # <<>>

(***************************************************************************)
(* C15: the condition of an explicit join.                                 *)
(***************************************************************************)
\* a SELECT without aggregation, DISTINCT and LIMIT over one explicit join
\* of the tables t and u
JoinCall ==
  /\ calls > 0
  /\ op.stmt = "Select"
  /\ op.groupby = NoGroupBy /\ ~op.distinct /\ op.limit = NoLimit
  /\ op.from # NullRef /\ op.from.join # NullJoin
  /\ op.from.join.left = Table("t") /\ op.from.join.right = Table("u")

\* the join node of the tree returned is of the kind given, over Get(t) and Get(u)
JoinOfTables(kind) ==
  /\ FromTree(ret).op = kind
  /\ Len(FromTree(ret).children) = 2
  /\ Shape(FromTree(ret).children[1]) = GetOf("t")
  /\ Shape(FromTree(ret).children[2]) = GetOf("u")

\* the root of the tree returned is a Filter of the expressions given, or
\* no Filter when there are none
FilterOf(exprs) ==
  IF exprs = <<>> THEN ret.op # "Filter" ELSE ret.op = "Filter" /\ Exprs(ret.args.predicates) = exprs

\* C15: an INNER join becomes an InnerJoin node without a condition, and the
\* conjuncts of its ON condition (as it reads after the call) are in the
\* Filter of the enclosing SELECT before the conjuncts of the WHERE clause,
\* a Filter that exists also without a WHERE clause; an OUTER, LEFT, RIGHT
\* or SEMI join keeps its condition as passed on the join node, and the
\* Filter holds the WHERE conjuncts only; any other join type fails the
\* transform with "Join type invalid".
C15_JoinConditions ==
  JoinCall =>
    CASE op.from.join.jtype = "INNER" ->
           Succeeded =>
             /\ JoinOfTables("InnerJoin")
             /\ DOMAIN FromTree(ret).args = {"none"}
             /\ ConjunctList(ast.from.join.cond) # <<>>
             /\ FilterOf(ConjunctList(ast.from.join.cond) \o ConjunctList(ast.where))
      [] op.from.join.jtype \in {"OUTER", "LEFT", "RIGHT", "SEMI"} ->
           /\ ast.from = op.from
           /\ err # "Optimizer.InvalidJoinType"
           /\ Succeeded =>
                /\ JoinOfTables(JoinOperator(op.from.join.jtype))
                /\ FromTree(ret).args = [join_predicate |-> op.from.join.cond]
                /\ FilterOf(ConjunctList(ast.where))
      [] OTHER -> err = "Optimizer.InvalidJoinType" /\ ret = Thrown /\ ast = op

\* C15 witness: an INNER join with two ON conjuncts under a WHERE clause has
\* been lowered to a Filter of three predicates.
C15_OnBeforeWhere ==
  /\ JoinCall
  /\ Succeeded
  /\ op.from.join.jtype = "INNER"
  /\ Len(ConjunctList(op.from.join.cond)) = 2
  /\ op.where # NullExpr
  /\ Len(ret.args.predicates) = 3

\* an INNER join without a WHERE clause has got its Filter, and a LEFT join
\* without one has got none
C15_FilterWithoutWhere ==
  /\ JoinCall
  /\ Succeeded
  /\ op.where = NullExpr
  /\ \/ op.from.join.jtype = "INNER" /\ ret.op = "Filter"
     \/ op.from.join.jtype = "LEFT" /\ ret.op = "LeftJoin"

(***************************************************************************)
(* C16: CollectPredicates on an inadmissible conjunct.                     *)
(***************************************************************************)
Inadmissible(e) == \E c \in ConjunctsOf(e) : ~IsSupportedConjunctivePredicate(c)

\* CollectPredicates was called on the WHERE clause of a SELECT over t
\* alone, or on the ON condition of an INNER join of t and u, the first
\* clause of its statement that can fail, with an inadmissible conjunct.
InadmissibleWhere == SelectFromTableWhere /\ Inadmissible(op.where)
InadmissibleOn == JoinCall /\ op.from.join.jtype = "INNER" /\ Inadmissible(op.from.join.cond)

\* C16: CollectPredicates fails on an inadmissible top-level conjunct with
\* "Predicate type not supported yet" before it changes anything: the
\* statement is as passed, no Mark/Single join was created, no sub-select
\* was lowered, the output slot is the tree it was before the call (the
\* table of the WHERE clause's FROM, the right table of the join) and the
\* accumulator, the list it was to fill, is empty as before.
C16_ValidatedBeforeMutated ==
  (InadmissibleWhere \/ InadmissibleOn) =>
    /\ err = "NotImplemented.Predicate"
    /\ ret = Thrown
    /\ ast = op
    /\ rewrites = <<>>
    /\ scopes = <<>>
    /\ Shape(output_expr_) = GetOf(IF InadmissibleWhere THEN "t" ELSE "u")
    /\ predicates_ = <<>>

\* C16 witness: a WHERE clause whose first conjunct holds a rewritable
\* sub-query and whose second conjunct is inadmissible has failed.
C16_RewritableBeforeInadmissible ==
  /\ InadmissibleWhere
  /\ op.where.type = "CONJUNCTION_AND"
  /\ op.where.children[1].type = "COMPARE_IN"
  /\ op.where.children[1].children[2].type = "ROW_SUBQUERY"
  /\ IsSupportedConjunctivePredicate(op.where.children[1])
  /\ ~IsSupportedConjunctivePredicate(op.where.children[2])
  /\ err = "NotImplemented.Predicate"
  /\ ast = op

(***************************************************************************)
(* C17: what an earlier call left in the accumulator.                      *)
(***************************************************************************)
\* the iteration order the last call met, read off its result
OrderMet == IF Succeeded /\ op.stmt = "Insert" /\ ret.op = "Insert" THEN ret.args.col_ids ELSE <<>>

\* the last statement as a transformer that never made a call lowers it
OnFreshTransformer ==
  Accept([out |-> NullOp, preds |-> <<>>, rw |-> <<>>, err |-> "none", order |-> OrderMet, next |-> 0,
          scopes |-> <<>>], op)

\* the predicates of the Filter and Get nodes of a tree
TreePredicates(n) ==
  UNION {Elements(m.args.predicates) : m \in {k \in Nodes(n) : "predicates" \in DOMAIN k.args}}

\* C17: whatever earlier calls left in predicates_, a call throws, returns
\* and rewrites what the same call on a fresh transformer does: the tree
\* returned, and so every predicate of its Filter and Get nodes, stems from
\* the statement passed alone.  What the call found in predicates_ is still
\* there after a successful SELECT, outside the tree.
C17_StalePredicatesStayOut ==
  calls > 0 =>
    /\ err = OnFreshTransformer.t.err
    /\ ast = OnFreshTransformer.n
    /\ rewrites = OnFreshTransformer.t.rw
    /\ Succeeded => ret = OnFreshTransformer.t.out

\* C17 witness: a SELECT with a WHERE clause was lowered to a tree with a
\* Filter by a transformer whose accumulator an earlier, failed call had
\* left non-empty.
C17_SelectAfterFailedCall ==
  /\ calls > 1
  /\ Succeeded
  /\ op.stmt = "Select"
  /\ scopes[Len(scopes)].entry # <<>>
  /\ predicates_ = scopes[Len(scopes)].entry
  /\ TreePredicates(ret) # {}

====
